---- MODULE Spec2Model ----
(***************************************************************************)
(* Scilla: the operation layer of an interactive Solana wallet CLI.        *)
(* The model follows one router loop (src/src/main.rs) that starts one     *)
(* leaf operation at a time; every Ledger Gateway call of an operation is  *)
(* one step, and the synchronous code between two awaits belongs to the    *)
(* step that precedes it.                                                  *)
(***************************************************************************)
EXTENDS Integers, Sequences, FiniteSets, TLC

\* ------------------------------------------------------------------ bounds
NumKeys == 2          \* distinct key pairs / addresses
MaxLamports == 2      \* largest lamport balance an account holds
EpochSpread == 1      \* epochs modelled on each side of epoch 100
U64Bits == 30         \* width standing for u64 (TLC integers are 32 bit)
MaxPathTries == 2     \* inputs a user gives to one keypair path prompt loop

\* ------------------------------------------------------------ value domains
Pubkeys == 1..NumKeys
Keypairs == {[seed |-> k] : k \in Pubkeys}

\* Signer::pubkey of a Keypair
Signer_pubkey(kp) == kp.seed

\* u64::MAX at the modelled width, written so that no intermediate value
\* exceeds it
U64Max == (2^(U64Bits - 1) - 1) + 2^(U64Bits - 1)

\* constants::ACTIVE_STAKE_EPOCH_BOUND, the "never deactivated" sentinel
ACTIVE_STAKE_EPOCH_BOUND == U64Max

Epochs == ((100 - EpochSpread)..(100 + EpochSpread)) \cup {ACTIVE_STAKE_EPOCH_BOUND}

Lamports == 0..MaxLamports

\* An f64 amount of SOL is held as a whole number of quanta, each worth
\* 1/SubLamport of a lamport; negative amounts are representable.
SubLamport == 2

\* constants::LAMPORTS_PER_SOL
LAMPORTS_PER_SOL == 1000000000

\* the f64 literal 1.0, in quanta
ONE_SOL == SubLamport * LAMPORTS_PER_SOL

SolAmounts == (0 - 1)..(SubLamport * MaxLamports + SubLamport)

\* wrapping u64 subtraction (a release build; a debug build panics instead)
u64_sub(a, b) == IF a >= b THEN a - b ELSE (U64Max - (b - a)) + 1

Programs == {"stake", "vote", "system"}

\* StakeStateV2 as bincode decodes it
StakeStates ==
    {[tag |-> "Uninitialized"], [tag |-> "RewardsPool"]}
    \cup {[tag |-> "Initialized", staker |-> s, withdrawer |-> w] :
            s \in Pubkeys, w \in Pubkeys}
    \cup {[tag |-> "Stake", staker |-> s, withdrawer |-> w, deactivation_epoch |-> e] :
            s \in Pubkeys, w \in Pubkeys, e \in Epochs}

\* VoteStateV4: the voter authorized from the first modelled epoch on, an
\* optional later change at epoch 100, and the authorized withdrawer.
VoteStates ==
    {[tag |-> "Vote", voters |-> v, authorized_withdrawer |-> w] :
        v \in UNION {[D -> Pubkeys] : D \in SUBSET {100 - EpochSpread, 100}},
        w \in Pubkeys}

\* payload bytes that decode under neither schema
Garbage == [tag |-> "Garbage"]

AccountData == StakeStates \cup VoteStates \cup {Garbage}

Accounts == [owner : Programs, lamports : Lamports, data : AccountData]

NoAccount == [tag |-> "NoAccount"]
NoTx == [tag |-> "NoTx"]
NoIx == [tag |-> "NoIx"]

\* ------------------------------------------------------- operation results
\* anyhow::Result of a leaf operation; an error keeps the values its message cites
Success == [kind |-> "Ok", class |-> "none", reason |-> "none", cited |-> {}]
NoResult == [kind |-> "none", class |-> "none", reason |-> "none", cited |-> {}]
Proceed == [kind |-> "Proceed", class |-> "none", reason |-> "none", cited |-> {}]
NeedEpoch == [kind |-> "NeedEpoch", class |-> "none", reason |-> "none", cited |-> {}]
Failure(class, reason, cited) ==
    [kind |-> "Err", class |-> class, reason |-> reason, cited |-> cited]
\* bail!(...) out of an operation's precondition checks
Reject(reason, cited) == Failure("ValidationRejection", reason, cited)
\* a failed RPC call propagated by `?`
GatewayError(fn) == Failure("GatewayError", fn, {})
\* a failed send_and_confirm_transaction propagated by `?`
SubmissionError == Failure("SubmissionError", "send_and_confirm_transaction", {})
DecodeError(schema) == Failure("DecodeError", schema, {})

\* ---------------------------------------------------------- ledger gateway
\* RpcClient::get_account: an account, or an error when none exists at the
\* address or when the transport fails
rpc_get_account(onchain, transport_ok) ==
    IF ~transport_ok THEN [ok |-> FALSE, err |-> "transport"]
    ELSE IF onchain = NoAccount THEN [ok |-> FALSE, err |-> "AccountNotFound"]
    ELSE [ok |-> TRUE, account |-> onchain]

Call(fn, arg, ok) == [fn |-> fn, arg |-> arg, ok |-> ok]

\* ------------------------------------------------------------ pure helpers
\* (sol * LAMPORTS_PER_SOL as f64) as u64: the cast truncates toward zero and
\* saturates, so a negative amount becomes 0
sol_to_lamports(sol) ==
    IF sol <= 0 THEN 0
    ELSE IF sol \div SubLamport > U64Max THEN U64Max
    ELSE sol \div SubLamport

\* lamports as f64 / LAMPORTS_PER_SOL as f64
lamports_to_sol(lamports) == lamports * SubLamport

\* bincode::deserialize::<StakeStateV2>(&account.data)
deserialize_stake(data) ==
    IF data \in StakeStates THEN [ok |-> TRUE, state |-> data] ELSE [ok |-> FALSE]

\* VoteStateV4::deserialize(&account.data, pubkey)
deserialize_vote(data) ==
    IF data \in VoteStates THEN [ok |-> TRUE, state |-> data] ELSE [ok |-> FALSE]

\* --------------------------------------------------------- stake deactivate
\* deactivate_checks without the comparison of the staker with the session key
deactivate_checks_no_staker(account, pubkey) ==
    IF account.owner # "stake"
    THEN Reject("Account is not owned by the stake program", {})
    ELSE LET d == deserialize_stake(account.data) IN
         IF ~d.ok THEN DecodeError("stake account")
         ELSE IF d.state.tag = "Stake"
              THEN IF d.state.deactivation_epoch # ACTIVE_STAKE_EPOCH_BOUND
                   THEN Reject("Stake is already deactivating",
                               {<<"deactivation_epoch", d.state.deactivation_epoch>>})
                   ELSE Proceed
              ELSE IF d.state.tag = "Initialized"
                   THEN Reject("Stake account is initialized but not delegated", {})
                   ELSE Reject("Stake account is not in a valid state for deactivation", {})

\* process_deactivate_stake_account, from the fetched account to the verdict
deactivate_checks(account, pubkey) ==
    IF account.owner # "stake"
    THEN Reject("Account is not owned by the stake program", {})
    ELSE LET d == deserialize_stake(account.data) IN
         IF ~d.ok THEN DecodeError("stake account")
         ELSE IF d.state.tag = "Stake"
              THEN IF d.state.deactivation_epoch # ACTIVE_STAKE_EPOCH_BOUND
                   THEN Reject("Stake is already deactivating",
                               {<<"deactivation_epoch", d.state.deactivation_epoch>>})
                   ELSE IF d.state.staker # pubkey
                        THEN Reject("You are not the authorized staker",
                                    {<<"authorized_staker", d.state.staker>>})
                        ELSE Proceed
              ELSE IF d.state.tag = "Initialized"
                   THEN Reject("Stake account is initialized but not delegated", {})
                   ELSE Reject("Stake account is not in a valid state for deactivation", {})

\* ----------------------------------------------------------- stake withdraw
\* process_withdraw_stake: the amount check made before any gateway call
withdraw_amount_check(amount_sol) ==
    IF amount_sol <= 0
    THEN Reject("Withdrawal amount must be greater than 0", {})
    ELSE Proceed

\* withdraw_balance_check left out: every amount passes
withdraw_balance_check_absent(amount_sol, account) == Proceed

\* process_withdraw_stake: the final common balance check
withdraw_balance_check(amount_sol, account) ==
    IF sol_to_lamports(amount_sol) > account.lamports
    THEN Reject("Insufficient balance",
                {<<"have_sol", lamports_to_sol(account.lamports)>>,
                 <<"requested_sol", amount_sol>>})
    ELSE Proceed

\* withdraw_variant_checks whose match lets Uninitialized and RewardsPool fall
\* through to the balance check
withdraw_variant_checks_fallthrough(account, pubkey, amount_sol) ==
    IF account.owner # "stake"
    THEN Reject("Account is not owned by the stake program", {})
    ELSE LET d == deserialize_stake(account.data) IN
         IF ~d.ok THEN DecodeError("stake account")
         ELSE IF d.state.tag = "Stake"
              THEN IF d.state.withdrawer # pubkey
                   THEN Reject("You are not the authorized withdrawer",
                               {<<"authorized_withdrawer", d.state.withdrawer>>})
                   ELSE IF d.state.deactivation_epoch = ACTIVE_STAKE_EPOCH_BOUND
                        THEN Reject("Stake is still active", {})
                        ELSE NeedEpoch
              ELSE IF d.state.tag = "Initialized" /\ d.state.withdrawer # pubkey
                   THEN Reject("You are not the authorized withdrawer",
                               {<<"authorized_withdrawer", d.state.withdrawer>>})
                   ELSE withdraw_balance_check(amount_sol, account)

\* process_withdraw_stake: owner check, decoding and the match on the variant,
\* up to the epoch lookup the delegated variant needs
withdraw_variant_checks(account, pubkey, amount_sol) ==
    IF account.owner # "stake"
    THEN Reject("Account is not owned by the stake program", {})
    ELSE LET d == deserialize_stake(account.data) IN
         IF ~d.ok THEN DecodeError("stake account")
         ELSE IF d.state.tag = "Stake"
              THEN IF d.state.withdrawer # pubkey
                   THEN Reject("You are not the authorized withdrawer",
                               {<<"authorized_withdrawer", d.state.withdrawer>>})
                   ELSE IF d.state.deactivation_epoch = ACTIVE_STAKE_EPOCH_BOUND
                        THEN Reject("Stake is still active", {})
                        ELSE NeedEpoch
              ELSE IF d.state.tag = "Initialized"
                   THEN IF d.state.withdrawer # pubkey
                        THEN Reject("You are not the authorized withdrawer",
                                    {<<"authorized_withdrawer", d.state.withdrawer>>})
                        ELSE withdraw_balance_check(amount_sol, account)
                   ELSE IF d.state.tag = "Uninitialized"
                        THEN Reject("Stake account is uninitialized", {})
                        ELSE Reject("Cannot withdraw from rewards pool", {})

\* withdraw_cooldown_check with `<` for `<=`: the deactivation epoch itself passes
withdraw_cooldown_check_lt(epoch, deactivation_epoch) ==
    IF epoch < deactivation_epoch
    THEN Reject("Stake is still cooling down",
                {<<"current_epoch", epoch>>,
                 <<"deactivation_epoch", deactivation_epoch>>,
                 <<"epochs_remaining", u64_sub(deactivation_epoch, epoch)>>})
    ELSE Proceed

\* withdraw_cooldown_check with the operands of the subtraction exchanged
withdraw_cooldown_check_swapped(epoch, deactivation_epoch) ==
    IF epoch <= deactivation_epoch
    THEN Reject("Stake is still cooling down",
                {<<"current_epoch", epoch>>,
                 <<"deactivation_epoch", deactivation_epoch>>,
                 <<"epochs_remaining", u64_sub(epoch, deactivation_epoch)>>})
    ELSE Proceed

\* process_withdraw_stake: the cooldown check made with the fetched epoch
withdraw_cooldown_check(epoch, deactivation_epoch) ==
    IF epoch <= deactivation_epoch
    THEN Reject("Stake is still cooling down",
                {<<"current_epoch", epoch>>,
                 <<"deactivation_epoch", deactivation_epoch>>,
                 <<"epochs_remaining", u64_sub(deactivation_epoch, epoch)>>})
    ELSE Proceed

\* process_withdraw_stake: what follows the epoch lookup of the delegated variant
withdraw_epoch_checks(epoch, account, amount_sol) ==
    LET c == withdraw_cooldown_check(epoch, account.data.deactivation_epoch) IN
    IF c.kind # "Proceed" THEN c ELSE withdraw_balance_check(amount_sol, account)

\* ------------------------------------------------------ vote account create
\* create_distinct_checks without the comparison of vote account and identity
create_distinct_checks_no_identity(fee_payer_pubkey, vote_account_pubkey, identity_pubkey) ==
    IF fee_payer_pubkey = vote_account_pubkey
    THEN Reject("Fee payer cannot be the same as vote account",
                {<<"fee_payer", fee_payer_pubkey>>, <<"vote_account", vote_account_pubkey>>})
    ELSE Proceed

\* process_create_vote_account: the checks made before any gateway call
create_distinct_checks(fee_payer_pubkey, vote_account_pubkey, identity_pubkey) ==
    IF fee_payer_pubkey = vote_account_pubkey
    THEN Reject("Fee payer cannot be the same as vote account",
                {<<"fee_payer", fee_payer_pubkey>>, <<"vote_account", vote_account_pubkey>>})
    ELSE IF vote_account_pubkey = identity_pubkey
         THEN Reject("Vote account cannot be the same as identity",
                     {<<"vote_account", vote_account_pubkey>>, <<"identity", identity_pubkey>>})
         ELSE Proceed

\* process_create_vote_account: `if let Ok(response) = get_account(..)`
create_existence_check(response, vote_account_pubkey) ==
    IF response.ok
    THEN IF response.account.owner = "vote"
         THEN Reject("Vote account already exists", {<<"vote_account", vote_account_pubkey>>})
         ELSE Reject("Account already exists and is not a vote account",
                     {<<"vote_account", vote_account_pubkey>>})
    ELSE Proceed

\* u64::max of the rent-exempt minimum and 1
required_balance(rent) == IF rent > 1 THEN rent ELSE 1

\* ---------------------------------------------------- vote authorize / withdraw
\* AuthorizedVoters::get_authorized_voter: the entry of the epoch, else the
\* latest entry of an earlier epoch, else None
get_authorized_voter(voters, epoch) ==
    LET earlier == {e \in DOMAIN voters : e <= epoch} IN
    IF earlier = {} THEN [some |-> FALSE]
    ELSE [some |-> TRUE,
          voter |-> voters[CHOOSE e \in earlier : \A f \in earlier : f <= e]]

\* process_authorize_voter: owner check and decoding, before the epoch lookup
authorize_account_checks(account, vote_account_pubkey) ==
    IF account.owner # "vote"
    THEN Reject("is not a vote account", {<<"vote_account", vote_account_pubkey>>})
    ELSE IF ~deserialize_vote(account.data).ok
         THEN DecodeError("vote state")
         ELSE NeedEpoch

\* authorize_epoch_checks accepting the voter of any epoch in the map, not only
\* the one authorized for the current epoch
authorize_epoch_checks_any_epoch(current_epoch, account, authorized_pubkey) ==
    LET vote_state == deserialize_vote(account.data).state
        current == get_authorized_voter(vote_state.voters, current_epoch)
    IN  IF ~current.some
        THEN Failure("InvalidState", "Invalid vote account state; no authorized voters found", {})
        ELSE IF (\A e \in DOMAIN vote_state.voters : authorized_pubkey # vote_state.voters[e])
                /\ authorized_pubkey # vote_state.authorized_withdrawer
             THEN Reject("Keypair is not the current authorized voter or withdrawer",
                         {<<"supplied", authorized_pubkey>>,
                          <<"authorized_voter", current.voter>>,
                          <<"authorized_withdrawer", vote_state.authorized_withdrawer>>})
             ELSE Proceed

\* process_authorize_voter: the authority check made with the fetched epoch
authorize_epoch_checks(current_epoch, account, authorized_pubkey) ==
    LET vote_state == deserialize_vote(account.data).state
        current == get_authorized_voter(vote_state.voters, current_epoch)
    IN  IF ~current.some
        THEN Failure("InvalidState", "Invalid vote account state; no authorized voters found", {})
        ELSE IF authorized_pubkey # current.voter
                /\ authorized_pubkey # vote_state.authorized_withdrawer
             THEN Reject("Keypair is not the current authorized voter or withdrawer",
                         {<<"supplied", authorized_pubkey>>,
                          <<"authorized_voter", current.voter>>,
                          <<"authorized_withdrawer", vote_state.authorized_withdrawer>>})
             ELSE Proceed

\* vote_withdraw_checks that also lets a current authorized voter withdraw
vote_withdraw_checks_voter_too(account, vote_account_pubkey, withdrawer_pubkey) ==
    IF account.owner # "vote"
    THEN Reject("is not a vote account", {<<"vote_account", vote_account_pubkey>>})
    ELSE LET d == deserialize_vote(account.data) IN
         IF ~d.ok THEN DecodeError("vote state")
         ELSE IF withdrawer_pubkey # d.state.authorized_withdrawer
                 /\ \A e \in DOMAIN d.state.voters : withdrawer_pubkey # d.state.voters[e]
              THEN Reject("Keypair is not the authorized withdrawer",
                          {<<"supplied", withdrawer_pubkey>>,
                           <<"authorized_withdrawer", d.state.authorized_withdrawer>>})
              ELSE Proceed

\* process_sol_withdraw_from_vote_account, from the fetched account to the verdict
vote_withdraw_checks(account, vote_account_pubkey, withdrawer_pubkey) ==
    IF account.owner # "vote"
    THEN Reject("is not a vote account", {<<"vote_account", vote_account_pubkey>>})
    ELSE LET d == deserialize_vote(account.data) IN
         IF ~d.ok THEN DecodeError("vote state")
         ELSE IF withdrawer_pubkey # d.state.authorized_withdrawer
              THEN Reject("Keypair is not the authorized withdrawer",
                          {<<"supplied", withdrawer_pubkey>>,
                           <<"authorized_withdrawer", d.state.authorized_withdrawer>>})
              ELSE Proceed

\* ----------------------------------------------------------------- transfer
\* constants::MAX_TRANSFER_SOL, in quanta of an f64 amount
MAX_TRANSFER_SOL == SubLamport * MaxLamports

\* AccountCommand::process_command, Transfer: the limit on the entered amount,
\* checked by the command handler before transfer_sol is called at all
transfer_limit_check(amount) ==
    IF amount > MAX_TRANSFER_SOL
    THEN Failure("InputRejected", "Amount exceeds maximum allowed limit",
                 {<<"max_sol", MAX_TRANSFER_SOL>>})
    ELSE Proceed

\* ------------------------------------------------------ instructions, signing
\* stake instruction::deactivate_stake
deactivate_stake(stake_pubkey, authorized_pubkey) ==
    [program |-> "stake", kind |-> "deactivate", account |-> stake_pubkey,
     authority |-> authorized_pubkey, to |-> 0, lamports |-> 0]

\* stake instruction::withdraw
stake_withdraw(stake_pubkey, withdrawer_pubkey, recipient, lamports) ==
    [program |-> "stake", kind |-> "withdraw", account |-> stake_pubkey,
     authority |-> withdrawer_pubkey, to |-> recipient, lamports |-> lamports]

\* vote_instruction::create_account_with_config
create_account_with_config(from_pubkey, vote_pubkey, vote_init, lamports) ==
    [program |-> "vote", kind |-> "create_account", account |-> vote_pubkey,
     authority |-> from_pubkey, to |-> vote_init.authorized_withdrawer, lamports |-> lamports]

\* vote_instruction::authorize with VoteAuthorize::Voter
vote_authorize(vote_pubkey, authorized_pubkey, new_authorized_pubkey) ==
    [program |-> "vote", kind |-> "authorize_voter", account |-> vote_pubkey,
     authority |-> authorized_pubkey, to |-> new_authorized_pubkey, lamports |-> 0]

\* vote_instruction::withdraw
vote_withdraw(vote_pubkey, withdrawer_pubkey, lamports, recipient) ==
    [program |-> "vote", kind |-> "withdraw", account |-> vote_pubkey,
     authority |-> withdrawer_pubkey, to |-> recipient, lamports |-> lamports]

\* system instruction::transfer
system_transfer(from_pubkey, to_pubkey, lamports) ==
    [program |-> "system", kind |-> "transfer", account |-> from_pubkey,
     authority |-> from_pubkey, to |-> to_pubkey, lamports |-> lamports]

\* Message::new(instructions, Some(payer)) and Transaction::new(&[ctx.keypair()], ..)
sign_transaction(instruction, context) ==
    [instruction |-> instruction, fee_payer |-> context.pubkey,
     signers |-> {Signer_pubkey(context.keypair)}]

\* ------------------------------------------------------------- configuration
\* rpc_url values: constants::DEVNET_RPC and one other endpoint
RpcUrls == {"devnet", "custom"}

\* solana_commitment_config::CommitmentLevel
CommitmentLevels == {"processed", "confirmed", "finalized"}

\* A path is a root and a file number below it: root "~" is the unexpanded home
\* prefix of a TOML string, root "/" the home directory itself. File 0 does not
\* exist, files 1..NumKeys hold the key pairs, and file JunkFile exists but is
\* no key pair.
JunkFile == NumKeys + 1
KeypairPaths == [root : {"~", "/"}, file : 0..JunkFile]
EmptyPath == [root |-> "", file |-> 0]
NoPath == [root |-> "missing", file |-> 0]

\* Path::exists: the file system knows nothing of "~"
path_exists(path) == path.root = "/" /\ path.file # 0

\* config::expand_tilde
expand_tilde(path) ==
    IF path.root = "~" THEN [root |-> "/", file |-> path.file] ELSE path

\* Keypair::read_from_file
Keypair_read_from_file(path) ==
    IF path_exists(path) /\ path.file \in Pubkeys
    THEN [ok |-> TRUE, keypair |-> [seed |-> path.file]]
    ELSE [ok |-> FALSE]

\* ScillaConfig
ScillaConfigs ==
    [rpc_url : RpcUrls, commitment_level : CommitmentLevels, keypair_path : KeypairPaths]

\* ScillaConfig::default
ScillaConfig_default ==
    [rpc_url |-> "devnet", commitment_level |-> "confirmed",
     keypair_path |-> [root |-> "/", file |-> Signer_pubkey(CHOOSE kp \in Keypairs :
                                                 \A other \in Keypairs : kp.seed <= other.seed)]]

\* what may be at a path: nothing, a directory, or a text; a text is held by
\* whether it is TOML at all and by the value each key has in it
NoFile == [tag |-> "Absent"]
Directory == [tag |-> "Directory"]
TomlTexts ==
    [tag : {"Text"}, syntax_ok : BOOLEAN,
     rpc_url : RpcUrls \cup {"missing"},
     commitment_level : CommitmentLevels \cup {"missing", "bogus"},
     keypair_path : KeypairPaths \cup {NoPath}]
ConfigFiles == {NoFile, Directory} \cup TomlTexts

\* ScillaError and the Ok of a Result
Err(error) == [ok |-> FALSE, error |-> error]
Ok(config) == [ok |-> TRUE, config |-> config]

\* toml::from_str::<ScillaConfig>: all three keys are required, the commitment
\* level must be one of the enum, and the keypair path has its tilde expanded
toml_from_str(data) ==
    IF ~data.syntax_ok
       \/ data.rpc_url \notin RpcUrls
       \/ data.commitment_level \notin CommitmentLevels
       \/ data.keypair_path \notin KeypairPaths
    THEN Err("TomlParseError")
    ELSE Ok([rpc_url |-> data.rpc_url, commitment_level |-> data.commitment_level,
             keypair_path |-> expand_tilde(data.keypair_path)])

\* toml::to_string_pretty(&config)
toml_to_string_pretty(config) ==
    [tag |-> "Text", syntax_ok |-> TRUE, rpc_url |-> config.rpc_url,
     commitment_level |-> config.commitment_level, keypair_path |-> config.keypair_path]

\* fs::read_to_string followed by toml::from_str
read_and_parse(file) ==
    IF file.tag # "Text" THEN Err("IoError") ELSE toml_from_str(file)

\* load_from_path returning the default configuration for an unparsable text
load_from_path_lenient(file) ==
    IF file = NoFile THEN Err("ConfigPathDoesNotExist")
    ELSE IF file.tag # "Text" THEN Err("IoError")
         ELSE IF toml_from_str(file).ok THEN toml_from_str(file)
              ELSE Ok(ScillaConfig_default)

\* ScillaConfig::load_from_path, of the file at the given path
load_from_path(file) ==
    IF file = NoFile THEN Err("ConfigPathDoesNotExist")
    ELSE read_and_parse(file)

\* the loop of generate_config and edit_config that asks for a keypair path:
\* empty input takes the default, a path that does not exist is asked again
RECURSIVE keypair_path_loop(_, _)
keypair_path_loop(inputs, default_keypair_path) ==
    LET keypair_input == Head(inputs) IN
    IF keypair_input = EmptyPath THEN default_keypair_path
    ELSE IF ~path_exists(keypair_input) /\ Len(inputs) > 1
         THEN keypair_path_loop(Tail(inputs), default_keypair_path)
         ELSE keypair_input

\* the inputs a user gives to that loop: it ends with the first input that is
\* empty or exists
KeypairInputs ==
    LET One == KeypairPaths \cup {EmptyPath}
        accepted(i) == i = EmptyPath \/ path_exists(i)
        Of(n) == {i \in [1..n -> One] :
                     /\ accepted(i[n])
                     /\ \A k \in 1..(n - 1) : ~accepted(i[k])}
    IN  UNION {Of(n) : n \in 1..MaxPathTries}

\* what the user and the file system answer during generate_config
GenerateAnswers ==
    {[use_defaults |-> "err"]}
    \cup {[use_defaults |-> "yes", written |-> w] : w \in BOOLEAN}
    \cup {[use_defaults |-> "no", rpc_url |-> "custom", selected |-> c] : c \in {"err", "None"}}
    \cup {[use_defaults |-> "no", rpc_url |-> u, selected |-> c, inputs |-> i, written |-> w] :
            u \in RpcUrls, c \in CommitmentLevels, i \in KeypairInputs, w \in BOOLEAN}
NoAnswers == [use_defaults |-> "err"]

\* fs::write(&config_path, toml_string) and what is at the path afterwards
fs_write(file, config, written) ==
    IF written THEN [ok |-> TRUE, file |-> toml_to_string_pretty(config)]
    ELSE [ok |-> FALSE, error |-> "IoError", file |-> file]

\* generate_config: Ok with the file written, Ok without writing (the file
\* exists already, or 'None' was picked as commitment level), or an error
generate_config(file, answers) ==
    IF file # NoFile THEN [ok |-> TRUE, file |-> file]
    ELSE IF answers.use_defaults = "err" THEN [ok |-> FALSE, error |-> "Anyhow", file |-> file]
    ELSE IF answers.use_defaults = "yes"
         THEN fs_write(file, ScillaConfig_default, answers.written)
         ELSE IF answers.selected = "err"
              THEN [ok |-> FALSE, error |-> "Anyhow", file |-> file]
              ELSE IF answers.selected = "None" THEN [ok |-> TRUE, file |-> file]
              ELSE fs_write(file,
                            [rpc_url |-> answers.rpc_url,
                             commitment_level |-> answers.selected,
                             keypair_path |->
                                 keypair_path_loop(answers.inputs,
                                                   ScillaConfig_default.keypair_path)],
                            answers.written)

\* ScillaConfig::load: generate the file when it is missing, then read and
\* parse it; the result comes with what is at the config path afterwards
ScillaConfig_load(file, answers) ==
    LET generated == IF file = NoFile THEN generate_config(file, answers)
                     ELSE [ok |-> TRUE, file |-> file]
    IN  IF ~generated.ok
        THEN [ok |-> FALSE, error |-> generated.error, file |-> generated.file,
              generated |-> FALSE]
        ELSE LET parsed == read_and_parse(generated.file) IN
             IF parsed.ok
             THEN [ok |-> TRUE, config |-> parsed.config, file |-> generated.file,
                   generated |-> file = NoFile]
             ELSE [ok |-> FALSE, error |-> parsed.error, file |-> generated.file,
                   generated |-> file = NoFile]

\* TryFrom<ScillaConfig> for ScillaContext
ScillaContext_try_from(config) ==
    LET read == Keypair_read_from_file(config.keypair_path) IN
    IF ~read.ok THEN [ok |-> FALSE, error |-> "Anyhow"]
    ELSE [ok |-> TRUE,
          ctx |-> [rpc_client |-> [url |-> config.rpc_url,
                                   commitment |-> config.commitment_level],
                   keypair |-> read.keypair,
                   pubkey |-> Signer_pubkey(read.keypair)]]

\* reload assigning field by field: the new RPC client is in place before the
\* keypair is read
ScillaContext_reload_fieldwise(self, new_config) ==
    LET built == ScillaContext_try_from(new_config) IN
    IF built.ok THEN built
    ELSE [ok |-> FALSE, error |-> built.error,
          ctx |-> [rpc_client |-> [url |-> new_config.rpc_url,
                                   commitment |-> new_config.commitment_level],
                   keypair |-> self.keypair, pubkey |-> self.pubkey]]

\* ScillaContext::reload: `*self = ScillaContext::try_from(new_config)?`, with
\* the context the session holds afterwards
ScillaContext_reload(self, new_config) ==
    LET built == ScillaContext_try_from(new_config) IN
    IF built.ok THEN built
    ELSE [ok |-> FALSE, error |-> built.error, ctx |-> self]

\* what the user and the file system answer during edit_config
EditAnswers ==
    {[field |-> f] : f \in {"err", "None"}}
    \cup {[field |-> "RpcUrl", rpc_url |-> u, written |-> w] : u \in RpcUrls, w \in BOOLEAN}
    \cup {[field |-> "CommitmentLevel", selected |-> c, written |-> w] :
            c \in CommitmentLevels \cup {"err", "None"}, w \in BOOLEAN}
    \cup {[field |-> "KeypairPath", inputs |-> i, written |-> w] :
            i \in KeypairInputs, w \in BOOLEAN}

\* edit_config leaving without writing: an error, or a cancelled edit
edit_config_leaves(ok, error, file, self) ==
    [ok |-> ok, error |-> error, file |-> file, ctx |-> self, reloaded |-> "none"]

\* the configuration with the selected field replaced by the user's input
edited_config(config, answers) ==
    IF answers.field = "RpcUrl"
    THEN [config EXCEPT !.rpc_url = answers.rpc_url]
    ELSE IF answers.field = "CommitmentLevel"
         THEN [config EXCEPT !.commitment_level = answers.selected]
         ELSE [config EXCEPT !.keypair_path =
                   keypair_path_loop(answers.inputs, ScillaConfig_default.keypair_path)]

\* edit_config, from the write of the updated configuration on
edit_config_save(self, file, config, written) ==
    LET wrote == fs_write(file, config, written) IN
    IF ~wrote.ok THEN edit_config_leaves(FALSE, wrote.error, file, self)
    ELSE LET reload == ScillaContext_reload(self, config) IN
         [ok |-> reload.ok, error |-> IF reload.ok THEN "none" ELSE reload.error,
          file |-> wrote.file, ctx |-> reload.ctx,
          reloaded |-> IF reload.ok THEN "ok" ELSE "failed"]

\* edit_config in which 'None' as commitment level keeps the level and goes on to
\* save and reload
edit_config_none_saves(self, file, generate_answers, answers) ==
    LET config == ScillaConfig_load(file, generate_answers) IN
    IF ~config.ok THEN edit_config_leaves(FALSE, config.error, config.file, self)
    ELSE IF answers.field = "err"
            \/ (answers.field = "CommitmentLevel" /\ answers.selected = "err")
         THEN edit_config_leaves(FALSE, "Anyhow", config.file, self)
         ELSE IF answers.field = "None"
              THEN edit_config_leaves(TRUE, "none", config.file, self)
              ELSE IF answers.field = "CommitmentLevel" /\ answers.selected = "None"
                   THEN edit_config_save(self, config.file, config.config, answers.written)
                   ELSE edit_config_save(self, config.file,
                                         edited_config(config.config, answers),
                                         answers.written)

\* edit_config: load, ask for the field and its value, write the file, reload
\* the context; the result comes with the file and the context afterwards
edit_config(self, file, generate_answers, answers) ==
    LET config == ScillaConfig_load(file, generate_answers) IN
    IF ~config.ok THEN edit_config_leaves(FALSE, config.error, config.file, self)
    ELSE IF answers.field = "err"
            \/ (answers.field = "CommitmentLevel" /\ answers.selected = "err")
         THEN edit_config_leaves(FALSE, "Anyhow", config.file, self)
         ELSE IF answers.field = "None"
                 \/ (answers.field = "CommitmentLevel" /\ answers.selected = "None")
              THEN edit_config_leaves(TRUE, "none", config.file, self)
              ELSE edit_config_save(self, config.file,
                                    edited_config(config.config, answers),
                                    answers.written)

\* -------------------------------------------------------------------- state
VARIABLES
    ctx,        \* ScillaContext: rpc_client, keypair, pubkey
    pc,         \* "prompt", or the gateway call the running operation awaits
    cmd,        \* the leaf operation that runs, or ran last
    args,       \* what the prompts of that operation collected
    ledger,     \* the account the ledger holds at the address the operation acts on
    account,    \* the account get_account returned to the operation
    calls,      \* the gateway calls of this invocation, in order
    verdict,    \* "none", "Proceed" or "Reject": how the operation's checks ended
    result,     \* the Result the operation returned
    ix,         \* the instruction the operation built
    signers,    \* the signer set the operation hands to the builder
    tx,         \* the signed transaction handed to send_and_confirm_transaction
    menu,       \* the router's state: "MainMenu", a command group, or "Terminated"
    flow,       \* the CommandFlow the last process_command returned to main
    printed,    \* the lines this invocation printed: "error", "done", "success"
    exit_code,  \* "running", or how the process ended: "SUCCESS", "FAILURE", "PANIC"
    config_file,\* what is at scilla_config_path()
    reloaded,   \* "none", or how the ctx.reload of this invocation ended: "ok", "failed"
    loaded      \* what the last load_from_path call returned

vars == <<ctx, pc, cmd, args, ledger, account, calls, verdict, result, ix, signers, tx,
          menu, flow, printed, exit_code, config_file, reloaded, loaded>>

\* the configuration on disk and what was done with it
disk == <<config_file, reloaded, loaded>>

\* what main's loop and the presentation layer hold
router == <<menu, flow, printed, exit_code>>

LedgerStates == Accounts \cup {NoAccount}

\* before main has built the session context
NoContext ==
    [rpc_client |-> [url |-> "none", commitment |-> "none"],
     keypair |-> [seed |-> 0], pubkey |-> 0]

\* Termination::report of what main returns: CommandFlow reports SUCCESS, and
\* the Err of the anyhow::Result around it reports FAILURE
report(returned) == IF returned = "Ok" THEN "SUCCESS" ELSE "FAILURE"

\* before load_from_path has been called
NoLoad == [ok |-> FALSE, error |-> "none"]

\* the state main starts in, whatever is at the config path
Start ==
    /\ ctx = NoContext
    /\ menu = "MainMenu"
    /\ flow = "none"
    /\ printed = <<>>
    /\ exit_code = "running"
    /\ cmd = "none"
    /\ args = [none |-> TRUE]
    /\ ledger = NoAccount
    /\ account = NoAccount
    /\ calls = <<>>
    /\ verdict = "none"
    /\ result = NoResult
    /\ ix = NoIx
    /\ signers = {}
    /\ tx = NoTx
    /\ reloaded = "none"
    /\ loaded = NoLoad

\* main starts with a text at the config path that names the default endpoint
\* and commitment level, or is no TOML; its keypair path names the default
\* keypair, a file that is no keypair, or no file (the operations treat all
\* keys alike, and the keys on chain and in the arguments range over Pubkeys)
Init ==
    /\ Start
    /\ pc = "main"
    /\ config_file \in {t \in TomlTexts :
                           /\ t.rpc_url = ScillaConfig_default.rpc_url
                           /\ t.commitment_level = ScillaConfig_default.commitment_level
                           /\ t.keypair_path \in KeypairPaths
                           /\ t.keypair_path.root = "/"
                           /\ t.keypair_path.file \in
                                  {0, ScillaConfig_default.keypair_path.file, JunkFile}
                           /\ t.syntax_ok \/ t.keypair_path.file = 0}

\* main starts with anything at the config path
ConfigInit ==
    /\ Start
    /\ pc = "main"
    /\ config_file \in ConfigFiles

\* a test of load_from_path starts with anything at the path it is given
LoadInit ==
    /\ Start
    /\ pc = "test"
    /\ config_file \in ConfigFiles

\* the leaf operations that change the ledger
Commands ==
    {"Transfer", "StakeDeactivate", "StakeWithdraw",
     "VoteCreate", "VoteAuthorize", "VoteWithdraw"}

\* StakeCommand variants whose arm is todo!()
StakeTodo ==
    {"StakeCreate", "StakeDelegate", "StakeMerge", "StakeSplit", "StakeShow", "StakeHistory"}

\* the command groups of the menu and the leaves of each
Groups == {"Account", "Stake", "Vote", "Config", "Exit"}
FlowGroups == {"Account", "Config", "Exit"}

Leaves(group) ==
    CASE group = "Account" -> {"Transfer", "Airdrop", "GoBack"}
      [] group = "Stake" -> {"StakeDeactivate", "StakeWithdraw", "GoBack"} \cup StakeTodo
      [] group = "Vote" -> {"VoteCreate", "VoteAuthorize", "VoteWithdraw", "GoBack"}
      [] group = "Config" -> {"ConfigShow", "ConfigEdit", "GoBack"}
      [] OTHER -> {"Exit"}

\* the group a leaf other than GoBack belongs to
GroupOf(c) == CHOOSE g \in Groups : c \in Leaves(g)

\* main, up to the loop: load the configuration, generating it when the file
\* is missing, and build the session context; either failure is returned from
\* main with `?`
main ==
    /\ pc = "main"
    /\ \E answers \in (IF config_file = NoFile THEN GenerateAnswers ELSE {NoAnswers}) :
        LET config == ScillaConfig_load(config_file, answers)
            built == IF config.ok THEN ScillaContext_try_from(config.config) ELSE config
        IN  /\ config_file' = config.file
            /\ printed' = IF config.generated THEN <<"Configuration complete">> ELSE <<>>
            /\ IF config.ok /\ built.ok
               THEN /\ ctx' = built.ctx
                    /\ pc' = "prompt"
                    /\ UNCHANGED exit_code
               ELSE /\ pc' = "exited"
                    /\ exit_code' = report("Err")
                    /\ UNCHANGED ctx
    /\ UNCHANGED <<cmd, args, ledger, account, calls, verdict, result, ix, signers, tx,
                   menu, flow, reloaded, loaded>>

\* main: `let command = prompt_for_command()?`, first half: the main menu, where
\* one of the offered command groups is selected; a prompt error is returned
\* from main
select_group(offered) ==
    /\ pc = "prompt"
    /\ \E prompted \in BOOLEAN :
        IF prompted
        THEN /\ \E g \in offered : menu' = g
             /\ pc' = "group_menu"
             /\ UNCHANGED exit_code
        ELSE /\ pc' = "exited"
             /\ exit_code' = report("Err")
             /\ UNCHANGED menu
    /\ cmd' = "none"
    /\ flow' = "none"
    /\ printed' = <<>>
    /\ args' = [none |-> TRUE]
    /\ ledger' = NoAccount
    /\ account' = NoAccount
    /\ calls' = <<>>
    /\ verdict' = "none"
    /\ result' = NoResult
    /\ ix' = NoIx
    /\ signers' = {}
    /\ tx' = NoTx
    /\ reloaded' = "none"
    /\ UNCHANGED <<ctx, config_file, loaded>>

\* the main menu with every group of Command, dispatched as
\* Command::process_command dispatches
prompt_for_command == select_group(Groups)

\* the main menu with the groups whose process_command returns the CommandFlow
\* that main matches on
prompt_for_command_flow == select_group(FlowGroups)

\* prompt_for_command, second half: the menu of the selected group, where a
\* leaf is selected and returned to main, which calls its process_command
prompt_for_command_leaf ==
    /\ pc = "group_menu"
    /\ \E prompted \in BOOLEAN :
        IF prompted
        THEN /\ \E c \in Leaves(menu) : cmd' = c
             /\ pc' = "process_command"
             /\ UNCHANGED exit_code
        ELSE /\ pc' = "exited"
             /\ exit_code' = report("Err")
             /\ UNCHANGED cmd
    /\ UNCHANGED <<ctx, args, ledger, account, calls, verdict, result, ix, signers, tx,
                   menu, flow, printed>>
    /\ UNCHANGED disk

\* process_command collects the inputs a; the ledger holds onchain at the
\* address the operation acts on
Begin(a, onchain) ==
    /\ args' = a
    /\ ledger' = onchain
    /\ UNCHANGED <<ctx, cmd, account, calls, ix, signers, tx>>

\* Return as it would be if show_spinner handed the operation's Err back and the
\* `?` after it carried the error out of main
Return_propagate(r) ==
    /\ result' = r
    /\ verdict' = IF r.class = "ValidationRejection" THEN "Reject" ELSE verdict
    /\ printed' = Append(printed, IF r.kind = "Err" THEN "error" ELSE "done")
    /\ flow' = IF r.kind = "Err" THEN flow ELSE "Process"
    /\ menu' = IF r.kind = "Err" THEN menu ELSE "MainMenu"
    /\ pc' = IF r.kind = "Err" THEN "exited" ELSE "prompt"
    /\ exit_code' = IF r.kind = "Err" THEN report("Err") ELSE exit_code

\* the operation returns r to its caller
\* show_spinner (or print_error) prints one line for it, process_command
\* returns CommandFlow::Process, and main's match continues the loop
Return(r) ==
    /\ result' = r
    /\ verdict' = IF r.class = "ValidationRejection" THEN "Reject" ELSE verdict
    /\ printed' = Append(printed, IF r.kind = "Err" THEN "error" ELSE "done")
    /\ flow' = "Process"
    /\ menu' = "MainMenu"
    /\ pc' = "prompt"
    /\ UNCHANGED exit_code

\* the operation's checks passed: it builds instruction i and enters the builder
Build(i, s) ==
    /\ verdict' = "Proceed"
    /\ ix' = i
    /\ signers' = s
    /\ pc' = "get_latest_blockhash"
    /\ UNCHANGED <<result, tx, router>>

\* ---------------------------------------------------------- stake deactivate
StakeCommand_Deactivate ==
    /\ pc = "process_command"
    /\ cmd = "StakeDeactivate"
    /\ \E stake_pubkey \in Pubkeys, onchain \in LedgerStates :
        /\ Begin([stake_pubkey |-> stake_pubkey], onchain)
        /\ pc' = "get_account"
        /\ UNCHANGED <<verdict, result, router>>
    /\ UNCHANGED disk

process_deactivate_stake_account ==
    /\ pc = "get_account"
    /\ cmd = "StakeDeactivate"
    /\ \E transport_ok \in BOOLEAN :
        LET response == rpc_get_account(ledger, transport_ok) IN
        /\ calls' = Append(calls, Call("get_account", args.stake_pubkey, response.ok))
        /\ IF ~response.ok
           THEN /\ Return(GatewayError("get_account"))
                /\ UNCHANGED <<account, ix, signers, tx>>
           ELSE LET v == deactivate_checks(response.account, ctx.pubkey) IN
                /\ account' = response.account
                /\ IF v.kind = "Proceed"
                   THEN Build(deactivate_stake(args.stake_pubkey, ctx.pubkey), {ctx.keypair})
                   ELSE Return(v) /\ UNCHANGED <<ix, signers, tx>>
    /\ UNCHANGED <<ctx, cmd, args, ledger>>
    /\ UNCHANGED disk

\* ------------------------------------------------------------ stake withdraw
StakeCommand_Withdraw ==
    /\ pc = "process_command"
    /\ cmd = "StakeWithdraw"
    /\ \E stake_pubkey \in Pubkeys, recipient \in Pubkeys, amount \in SolAmounts,
       onchain \in LedgerStates :
        LET v == withdraw_amount_check(amount) IN
        /\ Begin([stake_pubkey |-> stake_pubkey, recipient |-> recipient,
                  amount_sol |-> amount], onchain)
        /\ IF v.kind = "Proceed"
           THEN pc' = "get_account" /\ UNCHANGED <<verdict, result, router>>
           ELSE Return(v)
    /\ UNCHANGED disk

process_withdraw_stake ==
    /\ pc = "get_account"
    /\ cmd = "StakeWithdraw"
    /\ \E transport_ok \in BOOLEAN :
        LET response == rpc_get_account(ledger, transport_ok) IN
        /\ calls' = Append(calls, Call("get_account", args.stake_pubkey, response.ok))
        /\ IF ~response.ok
           THEN /\ Return(GatewayError("get_account"))
                /\ UNCHANGED <<account, ix, signers, tx>>
           ELSE LET v == withdraw_variant_checks(response.account, ctx.pubkey, args.amount_sol) IN
                /\ account' = response.account
                /\ IF v.kind = "Proceed"
                   THEN Build(stake_withdraw(args.stake_pubkey, ctx.pubkey, args.recipient,
                                             sol_to_lamports(args.amount_sol)),
                              {ctx.keypair})
                   ELSE IF v.kind = "NeedEpoch"
                        THEN /\ pc' = "get_epoch_info"
                             /\ UNCHANGED <<verdict, result, ix, signers, tx, router>>
                        ELSE Return(v) /\ UNCHANGED <<ix, signers, tx>>
    /\ UNCHANGED <<ctx, cmd, args, ledger>>
    /\ UNCHANGED disk

process_withdraw_stake_epoch ==
    /\ pc = "get_epoch_info"
    /\ cmd = "StakeWithdraw"
    /\ \E transport_ok \in BOOLEAN, epoch \in Epochs :
        /\ calls' = Append(calls, Call("get_epoch_info", IF transport_ok THEN epoch ELSE 0,
                                       transport_ok))
        /\ IF ~transport_ok
           THEN /\ Return(GatewayError("get_epoch_info"))
                /\ UNCHANGED <<ix, signers, tx>>
           ELSE LET v == withdraw_epoch_checks(epoch, account, args.amount_sol) IN
                IF v.kind = "Proceed"
                THEN Build(stake_withdraw(args.stake_pubkey, ctx.pubkey, args.recipient,
                                          sol_to_lamports(args.amount_sol)),
                           {ctx.keypair})
                ELSE Return(v) /\ UNCHANGED <<ix, signers, tx>>
    /\ UNCHANGED <<ctx, cmd, args, ledger, account>>
    /\ UNCHANGED disk

\* ------------------------------------------------------ vote account create
\* VoteCommand::process_command, CreateVoteAccount, and the checks that
\* process_create_vote_account makes before its first gateway call
VoteCommand_CreateVoteAccount ==
    /\ pc = "process_command"
    /\ cmd = "VoteCreate"
    /\ \E account_keypair \in Keypairs, identity_keypair \in Keypairs,
          withdraw_keypair \in Keypairs, onchain \in LedgerStates :
        LET v == create_distinct_checks(ctx.pubkey, Signer_pubkey(account_keypair),
                                        Signer_pubkey(identity_keypair)) IN
        /\ Begin([vote_account_keypair |-> account_keypair,
                  identity_keypair |-> identity_keypair,
                  authorized_withdrawer |-> withdraw_keypair, commission |-> 0], onchain)
        /\ IF v.kind = "Proceed"
           THEN pc' = "get_account" /\ UNCHANGED <<verdict, result, router>>
           ELSE Return(v)
    /\ UNCHANGED disk

\* process_create_vote_account: the existence check
process_create_vote_account ==
    /\ pc = "get_account"
    /\ cmd = "VoteCreate"
    /\ \E transport_ok \in BOOLEAN :
        LET vote_account_pubkey == Signer_pubkey(args.vote_account_keypair)
            response == rpc_get_account(ledger, transport_ok)
            v == create_existence_check(response, vote_account_pubkey)
        IN  /\ calls' = Append(calls, Call("get_account", vote_account_pubkey, response.ok))
            /\ account' = IF response.ok THEN response.account ELSE NoAccount
            /\ IF v.kind = "Proceed"
               THEN /\ pc' = "get_minimum_balance_for_rent_exemption"
                    /\ verdict' = "Proceed"
                    /\ UNCHANGED <<result, router>>
               ELSE Return(v)
    /\ UNCHANGED <<ctx, cmd, args, ledger, ix, signers, tx>>
    /\ UNCHANGED disk

\* process_create_vote_account: the rent lookup and the instructions
process_create_vote_account_rent ==
    /\ pc = "get_minimum_balance_for_rent_exemption"
    /\ cmd = "VoteCreate"
    /\ \E transport_ok \in BOOLEAN, rent \in Lamports :
        /\ calls' = Append(calls, Call("get_minimum_balance_for_rent_exemption",
                                       IF transport_ok THEN rent ELSE 0, transport_ok))
        /\ IF ~transport_ok
           THEN /\ Return(GatewayError("get_minimum_balance_for_rent_exemption"))
                /\ UNCHANGED <<ix, signers, tx>>
           ELSE LET identity_pubkey == Signer_pubkey(args.identity_keypair)
                    vote_init == [node_pubkey |-> identity_pubkey,
                                  authorized_voter |-> identity_pubkey,
                                  authorized_withdrawer |->
                                      Signer_pubkey(args.authorized_withdrawer),
                                  commission |-> args.commission]
                IN  Build(create_account_with_config(
                              ctx.pubkey, Signer_pubkey(args.vote_account_keypair),
                              vote_init, required_balance(rent)),
                          {ctx.keypair, args.vote_account_keypair, args.identity_keypair})
    /\ UNCHANGED <<ctx, cmd, args, ledger, account>>
    /\ UNCHANGED disk

\* ----------------------------------------------------------- vote authorize
VoteCommand_AuthorizeVoter ==
    /\ pc = "process_command"
    /\ cmd = "VoteAuthorize"
    /\ \E vote_account_pubkey \in Pubkeys, authorized_keypair \in Keypairs,
          new_authorized_pubkey \in Pubkeys, onchain \in LedgerStates :
        /\ Begin([vote_account_pubkey |-> vote_account_pubkey,
                  authorized_keypair |-> authorized_keypair,
                  new_authorized_pubkey |-> new_authorized_pubkey], onchain)
        /\ pc' = "get_account"
        /\ UNCHANGED <<verdict, result, router>>
    /\ UNCHANGED disk

process_authorize_voter ==
    /\ pc = "get_account"
    /\ cmd = "VoteAuthorize"
    /\ \E transport_ok \in BOOLEAN :
        LET response == rpc_get_account(ledger, transport_ok) IN
        /\ calls' = Append(calls, Call("get_account", args.vote_account_pubkey, response.ok))
        /\ IF ~response.ok
           THEN /\ Return(Failure("GatewayError", "account does not exist",
                                  {<<"vote_account", args.vote_account_pubkey>>}))
                /\ UNCHANGED account
           ELSE LET v == authorize_account_checks(response.account, args.vote_account_pubkey) IN
                /\ account' = response.account
                /\ IF v.kind = "NeedEpoch"
                   THEN pc' = "get_epoch_info" /\ UNCHANGED <<verdict, result, router>>
                   ELSE Return(v)
    /\ UNCHANGED <<ctx, cmd, args, ledger, ix, signers, tx>>
    /\ UNCHANGED disk

process_authorize_voter_epoch ==
    /\ pc = "get_epoch_info"
    /\ cmd = "VoteAuthorize"
    /\ \E transport_ok \in BOOLEAN, epoch \in Epochs :
        /\ calls' = Append(calls, Call("get_epoch_info", IF transport_ok THEN epoch ELSE 0,
                                       transport_ok))
        /\ IF ~transport_ok
           THEN /\ Return(GatewayError("get_epoch_info"))
                /\ UNCHANGED <<ix, signers, tx>>
           ELSE LET authorized_pubkey == Signer_pubkey(args.authorized_keypair)
                    v == authorize_epoch_checks(epoch, account, authorized_pubkey)
                IN  IF v.kind = "Proceed"
                    THEN Build(vote_authorize(args.vote_account_pubkey, authorized_pubkey,
                                              args.new_authorized_pubkey),
                               {ctx.keypair, args.authorized_keypair})
                    ELSE Return(v) /\ UNCHANGED <<ix, signers, tx>>
    /\ UNCHANGED <<ctx, cmd, args, ledger, account>>
    /\ UNCHANGED disk

\* ------------------------------------------------------------ vote withdraw
VoteCommand_WithdrawFromVoteAccount ==
    /\ pc = "process_command"
    /\ cmd = "VoteWithdraw"
    /\ \E vote_account_pubkey \in Pubkeys, authorized_keypair \in Keypairs,
          recipient_address \in Pubkeys, amount \in Lamports, onchain \in LedgerStates :
        /\ Begin([vote_account_pubkey |-> vote_account_pubkey,
                  authorized_withdrawer |-> authorized_keypair,
                  recipient_address |-> recipient_address, amount |-> amount], onchain)
        /\ pc' = "get_account"
        /\ UNCHANGED <<verdict, result, router>>
    /\ UNCHANGED disk

process_sol_withdraw_from_vote_account ==
    /\ pc = "get_account"
    /\ cmd = "VoteWithdraw"
    /\ \E transport_ok \in BOOLEAN :
        LET response == rpc_get_account(ledger, transport_ok)
            withdrawer_pubkey == Signer_pubkey(args.authorized_withdrawer)
        IN
        /\ calls' = Append(calls, Call("get_account", args.vote_account_pubkey, response.ok))
        /\ IF ~response.ok
           THEN /\ Return(Failure("GatewayError", "account does not exist",
                                  {<<"vote_account", args.vote_account_pubkey>>}))
                /\ UNCHANGED <<account, ix, signers, tx>>
           ELSE LET v == vote_withdraw_checks(response.account, args.vote_account_pubkey,
                                              withdrawer_pubkey) IN
                /\ account' = response.account
                /\ IF v.kind = "Proceed"
                   THEN Build(vote_withdraw(args.vote_account_pubkey, withdrawer_pubkey,
                                            args.amount, args.recipient_address),
                              {ctx.keypair, args.authorized_withdrawer})
                   ELSE Return(v) /\ UNCHANGED <<ix, signers, tx>>
    /\ UNCHANGED <<ctx, cmd, args, ledger>>
    /\ UNCHANGED disk

\* ------------------------------------------------------------------ transfer
\* the sender's own account: a system account holding some balance
SenderStates == {[owner |-> "system", lamports |-> b, data |-> Garbage] : b \in Lamports}

\* AccountCommand::process_command, Transfer, and transfer_sol up to its first await
AccountCommand_Transfer ==
    /\ pc = "process_command"
    /\ cmd = "Transfer"
    /\ \E to \in Pubkeys, amount \in SolAmounts, onchain \in SenderStates :
        LET v == transfer_limit_check(amount) IN
        /\ Begin([to |-> to, amount_sol |-> amount], onchain)
        /\ IF v.kind = "Proceed"
           THEN pc' = "get_latest_blockhash" /\ UNCHANGED <<verdict, result, router>>
           ELSE Return(v)
    /\ UNCHANGED disk

\* transfer_sol: get_latest_blockhash, then Message::new and Transaction::new
transfer_sol ==
    /\ pc = "get_latest_blockhash"
    /\ cmd = "Transfer"
    /\ \E transport_ok \in BOOLEAN :
        /\ calls' = Append(calls, Call("get_latest_blockhash", 0, transport_ok))
        /\ IF transport_ok
           THEN /\ ix' = system_transfer(ctx.pubkey, args.to, sol_to_lamports(args.amount_sol))
                /\ signers' = {ctx.keypair}
                /\ tx' = sign_transaction(ix', ctx)
                /\ pc' = "send_and_confirm_transaction"
                /\ UNCHANGED <<result, verdict, router>>
           ELSE Return(GatewayError("get_latest_blockhash")) /\ UNCHANGED <<ix, signers, tx>>
    /\ UNCHANGED <<ctx, cmd, args, ledger, account>>
    /\ UNCHANGED disk

\* transfer_sol: send_and_confirm_transaction
transfer_sol_send ==
    /\ pc = "send_and_confirm_transaction"
    /\ cmd = "Transfer"
    /\ \E confirmed \in BOOLEAN :
        /\ calls' = Append(calls, Call("send_and_confirm_transaction", 0, confirmed))
        /\ Return(IF confirmed THEN Success ELSE SubmissionError)
    /\ UNCHANGED <<ctx, cmd, args, ledger, account, ix, signers, tx>>
    /\ UNCHANGED disk

\* build_and_send_tx going on to sign and send although the blockhash fetch failed
build_and_send_tx_ignores_failure ==
    /\ pc = "get_latest_blockhash"
    /\ cmd # "Transfer"
    /\ \E transport_ok \in BOOLEAN :
        /\ calls' = Append(calls, Call("get_latest_blockhash", 0, transport_ok))
        /\ tx' = sign_transaction(ix, ctx)
        /\ pc' = "send_and_confirm_transaction"
        /\ UNCHANGED <<result, verdict, router>>
    /\ UNCHANGED <<ctx, cmd, args, ledger, account, ix, signers>>
    /\ UNCHANGED disk

\* ------------------------------------------------------- transaction builder
\* build_and_send_tx: get_latest_blockhash, then Message::new and Transaction::new
build_and_send_tx ==
    /\ pc = "get_latest_blockhash"
    /\ cmd # "Transfer"
    /\ \E transport_ok \in BOOLEAN :
        /\ calls' = Append(calls, Call("get_latest_blockhash", 0, transport_ok))
        /\ IF transport_ok
           THEN /\ tx' = sign_transaction(ix, ctx)
                /\ pc' = "send_and_confirm_transaction"
                /\ UNCHANGED <<result, verdict, router>>
           ELSE Return(GatewayError("get_latest_blockhash")) /\ UNCHANGED tx
    /\ UNCHANGED <<ctx, cmd, args, ledger, account, ix, signers>>
    /\ UNCHANGED disk

\* build_and_send_tx: send_and_confirm_transaction
build_and_send_tx_send ==
    /\ pc = "send_and_confirm_transaction"
    /\ cmd # "Transfer"
    /\ \E confirmed \in BOOLEAN :
        /\ calls' = Append(calls, Call("send_and_confirm_transaction", 0, confirmed))
        /\ Return(IF confirmed THEN Success ELSE SubmissionError)
    /\ UNCHANGED <<ctx, cmd, args, ledger, account, ix, signers, tx>>
    /\ UNCHANGED disk

\* the Airdrop command handing the request to a detached task: control is back
\* at the prompt while the request is still outstanding
AccountCommand_Airdrop_detached ==
    /\ pc = "process_command"
    /\ cmd = "Airdrop"
    /\ pc' = "prompt"
    /\ UNCHANGED <<ctx, cmd, args, ledger, account, calls, verdict, result, ix, signers, tx,
                   router>>
    /\ UNCHANGED disk

\* ------------------------------------------------------------------ airdrop
\* AccountCommand::process_command, Airdrop: no input is prompted for
AccountCommand_Airdrop ==
    /\ pc = "process_command"
    /\ cmd = "Airdrop"
    /\ pc' = "request_airdrop"
    /\ UNCHANGED <<ctx, cmd, args, ledger, account, calls, verdict, result, ix, signers, tx,
                   router>>
    /\ UNCHANGED disk

\* request_sol_airdrop asking again for as long as the request fails
request_sol_airdrop_retry ==
    /\ pc = "request_airdrop"
    /\ cmd = "Airdrop"
    /\ \E requested \in BOOLEAN :
        /\ calls' = Append(calls, [fn |-> "request_airdrop", arg |-> ctx.pubkey,
                                   lamports |-> sol_to_lamports(ONE_SOL),
                                   ok |-> requested])
        /\ IF requested
           THEN /\ printed' = printed \o <<"success", "done">>
                /\ result' = Success
                /\ flow' = "Process"
                /\ menu' = "MainMenu"
                /\ pc' = "prompt"
           ELSE UNCHANGED <<printed, result, flow, menu, pc>>
    /\ UNCHANGED <<ctx, cmd, args, ledger, account, verdict, ix, signers, tx, exit_code>>
    /\ UNCHANGED disk

\* request_sol_airdrop: one request for sol_to_lamports(1.0) to the session
\* address; a failure is printed with print_error and the function still
\* returns Ok(()), so show_spinner finishes with its line for Ok
request_sol_airdrop ==
    /\ pc = "request_airdrop"
    /\ cmd = "Airdrop"
    /\ \E requested \in BOOLEAN :
        /\ calls' = Append(calls, [fn |-> "request_airdrop", arg |-> ctx.pubkey,
                                   lamports |-> sol_to_lamports(ONE_SOL),
                                   ok |-> requested])
        /\ printed' = printed \o <<IF requested THEN "success" ELSE "error", "done">>
    /\ result' = Success
    /\ flow' = "Process"
    /\ menu' = "MainMenu"
    /\ pc' = "prompt"
    /\ UNCHANGED <<ctx, cmd, args, ledger, account, verdict, ix, signers, tx, exit_code>>
    /\ UNCHANGED disk

\* ------------------------------------------------- go back, exit, todo!() arms
\* the GoBack leaf of a group: process_command returns CommandFlow::GoBack and
\* main's match continues the loop
Command_GoBack ==
    /\ pc = "process_command"
    /\ cmd = "GoBack"
    /\ flow' = "GoBack"
    /\ menu' = "MainMenu"
    /\ pc' = "prompt"
    /\ UNCHANGED <<ctx, cmd, args, ledger, account, calls, verdict, result, ix, signers, tx,
                   printed, exit_code>>
    /\ UNCHANGED disk

\* Command::Exit: main's match breaks the loop, main returns Ok(CommandFlow::Exit)
\* and its report prints "Goodbye"
Command_Exit ==
    /\ pc = "process_command"
    /\ cmd = "Exit"
    /\ flow' = "Exit"
    /\ menu' = "Terminated"
    /\ printed' = <<"goodbye">>
    /\ exit_code' = report("Ok")
    /\ pc' = "exited"
    /\ UNCHANGED <<ctx, cmd, args, ledger, account, calls, verdict, result, ix, signers, tx>>
    /\ UNCHANGED disk

\* StakeCommand::process_command on a variant whose arm is todo!(): the panic
\* unwinds through main and ends the process
StakeCommand_todo ==
    /\ pc = "process_command"
    /\ cmd \in StakeTodo
    /\ exit_code' = "PANIC"
    /\ pc' = "exited"
    /\ UNCHANGED <<ctx, cmd, args, ledger, account, calls, verdict, result, ix, signers, tx,
                   menu, flow, printed>>
    /\ UNCHANGED disk

\* ------------------------------------------------------------ configuration
\* Command::process_command of mod.rs on a ScillaConfig command: todo!()
Command_ScillaConfig_todo ==
    /\ pc = "process_command"
    /\ cmd \in {"ConfigShow", "ConfigEdit"}
    /\ exit_code' = "PANIC"
    /\ pc' = "exited"
    /\ UNCHANGED <<ctx, cmd, args, ledger, account, calls, verdict, result, ix, signers, tx,
                   menu, flow, printed>>
    /\ UNCHANGED disk

\* what ConfigCommand::process_command does with the Result of its command:
\* print an error, return CommandFlow::Process, and main continues
ConfigCommand_returns(ok, error) ==
    /\ result' = IF ok THEN Success ELSE Failure("ConfigError", error, {})
    /\ flow' = "Process"
    /\ menu' = "MainMenu"
    /\ pc' = "prompt"
    /\ UNCHANGED <<cmd, ledger, account, calls, verdict, ix, signers, tx, exit_code, loaded>>

\* ConfigCommand::process_command, Show: show_config loads and prints the table
ConfigCommand_Show ==
    /\ pc = "process_command"
    /\ cmd = "ConfigShow"
    /\ \E generate_answers \in
            (IF config_file = NoFile THEN GenerateAnswers ELSE {NoAnswers}) :
        LET config == ScillaConfig_load(config_file, generate_answers) IN
        /\ config_file' = config.file
        /\ printed' = IF config.ok THEN <<"table">> ELSE <<"error">>
        /\ ConfigCommand_returns(config.ok, IF config.ok THEN "none" ELSE config.error)
    /\ UNCHANGED <<ctx, args, reloaded>>

\* ConfigCommand::process_command, Edit: edit_config(ctx)
ConfigCommand_Edit ==
    /\ pc = "process_command"
    /\ cmd = "ConfigEdit"
    /\ \E generate_answers \in
            (IF config_file = NoFile THEN GenerateAnswers ELSE {NoAnswers}),
          answers \in EditAnswers :
        LET edit == edit_config(ctx, config_file, generate_answers, answers) IN
        /\ args' = answers
        /\ config_file' = edit.file
        /\ ctx' = edit.ctx
        /\ reloaded' = edit.reloaded
        /\ printed' = IF ~edit.ok THEN <<"error">>
                      ELSE IF edit.reloaded = "ok" THEN <<"updated">> ELSE <<>>
        /\ ConfigCommand_returns(edit.ok, edit.error)

\* a test of load_from_path: call it on the path and keep what it returns
test_load_from_path ==
    /\ pc = "test"
    /\ loaded' = load_from_path(config_file)
    /\ pc' = "tested"
    /\ UNCHANGED <<ctx, cmd, args, ledger, account, calls, verdict, result, ix, signers, tx,
                   menu, flow, printed, exit_code, config_file, reloaded>>

Next ==
    \/ main
    \/ prompt_for_command
    \/ prompt_for_command_leaf
    \/ StakeCommand_Deactivate
    \/ process_deactivate_stake_account
    \/ StakeCommand_Withdraw
    \/ process_withdraw_stake
    \/ process_withdraw_stake_epoch
    \/ VoteCommand_CreateVoteAccount
    \/ process_create_vote_account
    \/ process_create_vote_account_rent
    \/ VoteCommand_AuthorizeVoter
    \/ process_authorize_voter
    \/ process_authorize_voter_epoch
    \/ VoteCommand_WithdrawFromVoteAccount
    \/ process_sol_withdraw_from_vote_account
    \/ AccountCommand_Transfer
    \/ transfer_sol
    \/ transfer_sol_send
    \/ build_and_send_tx
    \/ build_and_send_tx_send
    \/ AccountCommand_Airdrop
    \/ request_sol_airdrop
    \/ Command_GoBack
    \/ Command_Exit
    \/ StakeCommand_todo
    \/ Command_ScillaConfig_todo

Spec == Init /\ [][Next]_vars

\* the program as main.rs, account.rs and commands/config.rs have it: the
\* commands whose process_command returns CommandFlow, with the configuration
\* edited and the context reloaded between operations
ConfigNext ==
    \/ main
    \/ prompt_for_command_flow
    \/ prompt_for_command_leaf
    \/ AccountCommand_Transfer
    \/ transfer_sol
    \/ transfer_sol_send
    \/ AccountCommand_Airdrop
    \/ request_sol_airdrop
    \/ ConfigCommand_Show
    \/ ConfigCommand_Edit
    \/ Command_GoBack
    \/ Command_Exit

ConfigSpec == ConfigInit /\ [][ConfigNext]_vars

\* the tests of load_from_path
LoadNext == test_load_from_path

LoadSpec == LoadInit /\ [][LoadNext]_vars

\* ---------------------------------------------------- vocabulary of the claims
CallsOf(fns) == {i \in 1..Len(calls) : calls[i].fn \in fns}
\* the invocation reached the transaction builder (a blockhash fetch or a submit)
BuilderCalled == CallsOf({"get_latest_blockhash", "send_and_confirm_transaction"}) # {}
\* the invocation handed a transaction to send_and_confirm_transaction
Submitted == CallsOf({"send_and_confirm_transaction"}) # {}
\* the operation has returned
Finished == pc = "prompt" /\ result.kind # "none"
Rejected == Finished /\ result.class = "ValidationRejection"
\* the address the running operation acts on
Target ==
    CASE cmd = "Transfer" -> ctx.pubkey
      [] cmd \in {"StakeDeactivate", "StakeWithdraw"} -> args.stake_pubkey
      [] cmd = "VoteCreate" -> Signer_pubkey(args.vote_account_keypair)
      [] OTHER -> args.vote_account_pubkey

\* C1: in every operation that changes the ledger, a blockhash fetch or a
\* send_and_confirm call is made only after that operation's validation ended
\* in Proceed, and an operation whose validation rejected makes no such call.
C1_BuildOnlyAfterProceed ==
    /\ BuilderCalled => verdict = "Proceed"
    /\ verdict = "Reject" => ~BuilderCalled

\* C2: a transfer is submitted only if the requested lamports are at most the
\* sender's balance, fetched during that same transfer; a request above the
\* balance is rejected citing both values, without a blockhash fetch or a submit.
\* (Stated for the amounts that pass the handler's entry limit.)
C2_TransferWithinBalance ==
    cmd = "Transfer" /\ "amount_sol" \in DOMAIN args
    /\ args.amount_sol <= MAX_TRANSFER_SOL =>
        /\ Submitted =>
              /\ \E i \in CallsOf({"get_account", "get_balance"}) :
                     calls[i].arg = ctx.pubkey /\ calls[i].ok
              /\ sol_to_lamports(args.amount_sol) <= ledger.lamports
        /\ sol_to_lamports(args.amount_sol) > ledger.lamports =>
              /\ ~BuilderCalled
              /\ Finished =>
                    /\ Rejected
                    /\ \E have, want \in 0..(SubLamport * MaxLamports + SubLamport) :
                          {<<"have_sol", have>>, <<"requested_sol", want>>} \subseteq result.cited

\* C3: every invocation that submits a transaction has, earlier in the same
\* invocation, called get_account or get_balance for the account it acts on.
C3_ReadBeforeSubmit ==
    \A i \in CallsOf({"send_and_confirm_transaction"}) :
        \E j \in CallsOf({"get_account", "get_balance"}) :
            j < i /\ calls[j].arg = Target

\* ------------------------------------------------------------------ C4
\* the conditions of stake deactivate that the fetched account a violates
DeactivateViolations(a, pubkey) ==
    {c \in {"owner", "variant", "deactivation", "staker"} :
        \/ c = "owner" /\ a.owner # "stake"
        \/ c = "variant" /\ a.data.tag # "Stake"
        \/ c = "deactivation" /\ a.data.tag = "Stake"
                              /\ a.data.deactivation_epoch # ACTIVE_STAKE_EPOCH_BOUND
        \/ c = "staker" /\ a.data.tag \in {"Stake", "Initialized"} /\ a.data.staker # pubkey}

\* the rejection reasons that identify each condition
DeactivateReasons(c) ==
    CASE c = "owner" -> {"Account is not owned by the stake program"}
      [] c = "variant" -> {"Stake account is initialized but not delegated",
                           "Stake account is not in a valid state for deactivation"}
      [] c = "deactivation" -> {"Stake is already deactivating"}
      [] c = "staker" -> {"You are not the authorized staker"}

\* C4: stake deactivate reaches the builder only for a fetched account that is
\* owned by the stake program, decodes to the delegated Stake variant, has the
\* never-deactivated sentinel as deactivation epoch and names the session key
\* as staker; when the decoded account violates exactly one of the four, the
\* operation is rejected with the reason of that condition and submits nothing.
C4_DeactivateGate ==
    cmd = "StakeDeactivate" =>
        /\ BuilderCalled \/ verdict = "Proceed" \/ ix # NoIx =>
              /\ account # NoAccount
              /\ account = ledger
              /\ account.owner = "stake"
              /\ account.data.tag = "Stake"
              /\ account.data.deactivation_epoch = ACTIVE_STAKE_EPOCH_BOUND
              /\ account.data.staker = ctx.pubkey
              /\ ix = deactivate_stake(args.stake_pubkey, ctx.pubkey)
        /\ account # NoAccount /\ account.data \in StakeStates =>
              \A c \in {"owner", "variant", "deactivation", "staker"} :
                  DeactivateViolations(account, ctx.pubkey) = {c} =>
                      /\ Rejected
                      /\ result.reason \in DeactivateReasons(c)
                      /\ ~BuilderCalled
                      /\ ix = NoIx

\* a deactivation rejected for the staker alone, after its account was fetched
C4_Witness ==
    /\ cmd = "StakeDeactivate"
    /\ account # NoAccount
    /\ account.data \in StakeStates
    /\ DeactivateViolations(account, ctx.pubkey) = {"staker"}
    /\ Rejected

\* ------------------------------------------------------------------ C5
\* the epoch the get_epoch_info call of this invocation returned, if any
FetchedEpochs == {calls[i].arg : i \in {j \in CallsOf({"get_epoch_info"}) : calls[j].ok}}

\* C5: for a stake account in the delegated Stake variant, stake withdraw reaches
\* the builder only if the session key is the authorized withdrawer, the
\* deactivation epoch is not the sentinel, and the epoch fetched in this
\* invocation is strictly greater than the deactivation epoch; with the fetched
\* epoch at or below the deactivation epoch nothing is built or submitted.
C5_WithdrawAfterCooldown ==
    cmd = "StakeWithdraw" /\ account # NoAccount /\ account.data.tag = "Stake" =>
        /\ BuilderCalled \/ verdict = "Proceed" \/ ix # NoIx =>
              /\ account.data.withdrawer = ctx.pubkey
              /\ account.data.deactivation_epoch # ACTIVE_STAKE_EPOCH_BOUND
              /\ \E e \in FetchedEpochs : e > account.data.deactivation_epoch
        /\ \A e \in FetchedEpochs :
              e <= account.data.deactivation_epoch =>
                  Rejected /\ ~BuilderCalled /\ ix = NoIx

\* a delegated stake withdrawn after its cooldown: the transaction was sent
C5_Witness ==
    /\ cmd = "StakeWithdraw"
    /\ account # NoAccount
    /\ account.data.tag = "Stake"
    /\ Submitted
    /\ result = Success

\* ------------------------------------------------------------------ C6
\* C6: a stake withdraw rejected for its cooldown reports as epochs remaining
\* exactly deactivation_epoch - current_epoch, a value that is never negative
\* and never the wrapped result of an unsigned subtraction; with deactivation
\* epoch 100 and current epoch 100 it reports 0.
C6_EpochsRemainingExact ==
    cmd = "StakeWithdraw" /\ Finished /\ result.reason = "Stake is still cooling down" =>
        \E current \in FetchedEpochs :
            LET deactivation == account.data.deactivation_epoch
                remaining == deactivation - current
            IN  /\ current <= deactivation
                /\ remaining >= 0
                /\ <<"epochs_remaining", remaining>> \in result.cited
                /\ \A c \in result.cited : c[1] = "epochs_remaining" => c[2] = remaining
                /\ <<"current_epoch", current>> \in result.cited
                /\ <<"deactivation_epoch", deactivation>> \in result.cited
                /\ (current = 100 /\ deactivation = 100 =>
                        <<"epochs_remaining", 0>> \in result.cited)

\* the scenario of the spec: deactivation epoch 100, current epoch 100
C6_Witness ==
    /\ cmd = "StakeWithdraw"
    /\ Rejected
    /\ result.reason = "Stake is still cooling down"
    /\ account.data.deactivation_epoch = 100
    /\ 100 \in FetchedEpochs
    /\ <<"epochs_remaining", 0>> \in result.cited

\* ------------------------------------------------------------------ C7
\* C7: stake withdraw branches on the decoded variant. For Initialized the only
\* authority or lifecycle requirement is that the session key is the authorized
\* withdrawer: no epoch is looked up, and the operation proceeds exactly when
\* that holds and the balance covers the amount. For Uninitialized and
\* RewardsPool it is rejected for every caller and amount, and submits nothing.
C7_WithdrawByVariant ==
    cmd = "StakeWithdraw" /\ account # NoAccount /\ account.owner = "stake" =>
        /\ account.data.tag = "Initialized" =>
              /\ CallsOf({"get_epoch_info"}) = {}
              /\ pc # "get_epoch_info"
              /\ (verdict = "Proceed") <=>
                    /\ account.data.withdrawer = ctx.pubkey
                    /\ sol_to_lamports(args.amount_sol) <= account.lamports
              /\ account.data.withdrawer # ctx.pubkey =>
                    Rejected /\ result.reason = "You are not the authorized withdrawer"
        /\ account.data.tag \in {"Uninitialized", "RewardsPool"} =>
              /\ Rejected
              /\ result.reason = IF account.data.tag = "Uninitialized"
                                 THEN "Stake account is uninitialized"
                                 ELSE "Cannot withdraw from rewards pool"
              /\ ~BuilderCalled
              /\ ix = NoIx
              /\ CallsOf({"get_epoch_info"}) = {}

\* an initialized, never delegated stake account withdrawn by its withdrawer
C7_Witness ==
    /\ cmd = "StakeWithdraw"
    /\ account # NoAccount
    /\ account.owner = "stake"
    /\ account.data.tag = "Initialized"
    /\ Submitted
    /\ result = Success

\* ------------------------------------------------------------------ C8
\* C8: every stake withdraw that reaches submission asks for at most the
\* lamports of the stake account as get_account returned it in that invocation;
\* a request above that balance is rejected and nothing is submitted.
C8_WithdrawWithinBalance ==
    cmd = "StakeWithdraw" =>
        /\ BuilderCalled \/ ix # NoIx =>
              /\ account # NoAccount
              /\ account = ledger
              /\ \E i \in CallsOf({"get_account"}) :
                     calls[i].ok /\ calls[i].arg = args.stake_pubkey
              /\ ix.lamports = sol_to_lamports(args.amount_sol)
              /\ ix.lamports <= account.lamports
        /\ account # NoAccount /\ sol_to_lamports(args.amount_sol) > account.lamports =>
              /\ ~BuilderCalled
              /\ ix = NoIx
              /\ Finished => result.kind = "Err"

\* a withdraw rejected for its balance alone
C8_Witness ==
    /\ cmd = "StakeWithdraw"
    /\ Rejected
    /\ result.reason = "Insufficient balance"
    /\ sol_to_lamports(args.amount_sol) > account.lamports

\* ------------------------------------------------------------------ C9
\* C9: vote account creation is rejected when the fee payer (the session key)
\* is the new vote account address, or when the vote account address is the
\* identity address, and in both cases before any Ledger Gateway call.
C9_CreateDistinctBeforeGateway ==
    cmd = "VoteCreate" /\ "vote_account_keypair" \in DOMAIN args =>
        LET vote_account_pubkey == Signer_pubkey(args.vote_account_keypair)
            identity_pubkey == Signer_pubkey(args.identity_keypair)
        IN  /\ ctx.pubkey = vote_account_pubkey =>
                  /\ Rejected
                  /\ result.reason = "Fee payer cannot be the same as vote account"
                  /\ calls = <<>>
                  /\ ix = NoIx
            /\ vote_account_pubkey = identity_pubkey =>
                  /\ Rejected
                  /\ result.reason \in {"Fee payer cannot be the same as vote account",
                                        "Vote account cannot be the same as identity"}
                  /\ calls = <<>>
                  /\ ix = NoIx

\* a creation rejected because the vote account is also the identity
C9_Witness ==
    /\ cmd = "VoteCreate"
    /\ Rejected
    /\ result.reason = "Vote account cannot be the same as identity"
    /\ Signer_pubkey(args.vote_account_keypair) = Signer_pubkey(args.identity_keypair)
    /\ ctx.pubkey # Signer_pubkey(args.vote_account_keypair)

\* ------------------------------------------------------------------ C10
\* C10: vote account creation submits nothing whenever an account already exists
\* at the target address, and its rejection tells an account of the vote program
\* from an account of another program; a create transaction is submitted only
\* if no account exists at that address.
C10_CreateOnlyIfAbsent ==
    cmd = "VoteCreate" /\ "vote_account_keypair" \in DOMAIN args =>
        /\ account # NoAccount =>
              /\ Rejected
              /\ result.reason = IF account.owner = "vote"
                                 THEN "Vote account already exists"
                                 ELSE "Account already exists and is not a vote account"
        /\ ledger # NoAccount => ~Submitted
        /\ Submitted => ledger = NoAccount

\* ------------------------------------------------------------------ C11
\* C11: vote authorize reaches the builder only if the fetched account is owned
\* by the vote program, its data decodes, and the supplied authority key is the
\* voter authorized for the epoch fetched in this invocation or the authorized
\* withdrawer; with a key that is neither, or an account of another program, the
\* operation is rejected and nothing is built or submitted.
C11_AuthorizeGate ==
    cmd = "VoteAuthorize" /\ "authorized_keypair" \in DOMAIN args =>
        LET authorized_pubkey == Signer_pubkey(args.authorized_keypair)
            decoded == account # NoAccount /\ deserialize_vote(account.data).ok
            Authorized(e) ==
                LET current == get_authorized_voter(account.data.voters, e) IN
                /\ current.some
                /\ authorized_pubkey \in {current.voter, account.data.authorized_withdrawer}
            Neither(e) ==
                LET current == get_authorized_voter(account.data.voters, e) IN
                /\ current.some
                /\ authorized_pubkey \notin {current.voter, account.data.authorized_withdrawer}
        IN  /\ BuilderCalled \/ ix # NoIx \/ verdict = "Proceed" =>
                  /\ decoded
                  /\ account.owner = "vote"
                  /\ \E i \in CallsOf({"get_account"}) :
                         calls[i].ok /\ calls[i].arg = args.vote_account_pubkey
                  /\ FetchedEpochs # {}
                  /\ \A e \in FetchedEpochs : Authorized(e)
                  /\ ix.kind = "authorize_voter" /\ ix.authority = authorized_pubkey
            /\ account # NoAccount /\ account.owner # "vote" =>
                  Rejected /\ ~BuilderCalled /\ ix = NoIx
            /\ decoded /\ account.owner = "vote" =>
                  \A e \in FetchedEpochs : Neither(e) =>
                      /\ Rejected
                      /\ <<"supplied", authorized_pubkey>> \in result.cited
                      /\ ~BuilderCalled
                      /\ ix = NoIx

\* an authorize rejected for a key that is a voter of a later epoch only
C11_Witness ==
    /\ cmd = "VoteAuthorize"
    /\ Rejected
    /\ result.reason = "Keypair is not the current authorized voter or withdrawer"
    /\ \E e \in DOMAIN account.data.voters :
           account.data.voters[e] = Signer_pubkey(args.authorized_keypair)

\* ------------------------------------------------------------------ C12
\* C12: vote withdraw reaches the builder only if the fetched account is owned by
\* the vote program and the supplied key is the authorized withdrawer W of the
\* decoded state; for a supplied key K other than W the operation is rejected,
\* the rejection names both K and W, and no instruction is built or submitted.
C12_VoteWithdrawGate ==
    cmd = "VoteWithdraw" /\ "authorized_withdrawer" \in DOMAIN args =>
        LET withdrawer_pubkey == Signer_pubkey(args.authorized_withdrawer)
            decoded == account # NoAccount /\ deserialize_vote(account.data).ok
        IN  /\ BuilderCalled \/ ix # NoIx \/ verdict = "Proceed" =>
                  /\ decoded
                  /\ account.owner = "vote"
                  /\ \E i \in CallsOf({"get_account"}) :
                         calls[i].ok /\ calls[i].arg = args.vote_account_pubkey
                  /\ withdrawer_pubkey = account.data.authorized_withdrawer
                  /\ ix.kind = "withdraw" /\ ix.authority = withdrawer_pubkey
            /\ account # NoAccount /\ account.owner # "vote" =>
                  Rejected /\ ~BuilderCalled /\ ix = NoIx
            /\ decoded /\ account.owner = "vote"
                  /\ withdrawer_pubkey # account.data.authorized_withdrawer =>
                  /\ Rejected
                  /\ <<"supplied", withdrawer_pubkey>> \in result.cited
                  /\ <<"authorized_withdrawer", account.data.authorized_withdrawer>>
                         \in result.cited
                  /\ ~BuilderCalled
                  /\ ix = NoIx

\* a withdraw rejected for a key that is an authorized voter but not the withdrawer
C12_Witness ==
    /\ cmd = "VoteWithdraw"
    /\ Rejected
    /\ result.reason = "Keypair is not the authorized withdrawer"
    /\ \E e \in DOMAIN account.data.voters :
           account.data.voters[e] = Signer_pubkey(args.authorized_withdrawer)

\* ------------------------------------------------------------------ C13
\* C13: an Airdrop invocation makes exactly one request_airdrop call, addressed
\* to the session public key with the fixed amount of one SOL (1,000,000,000
\* lamports); when that call fails an error line is printed and no second
\* request is made.
C13_AirdropOnce ==
    cmd = "Airdrop" =>
        /\ Len(calls) <= 1
        /\ \A i \in 1..Len(calls) :
              /\ calls[i].fn = "request_airdrop"
              /\ calls[i].arg = ctx.pubkey
              /\ calls[i].lamports = LAMPORTS_PER_SOL
        /\ pc = "prompt" =>
              /\ Len(calls) = 1
              /\ ~calls[1].ok =>
                    Len(SelectSeq(printed, LAMBDA line : line = "error")) = 1

\* an airdrop whose request failed has returned to the prompt
C13_Witness ==
    /\ cmd = "Airdrop"
    /\ pc = "prompt"
    /\ Len(calls) = 1
    /\ ~calls[1].ok
    /\ printed = <<"error", "done">>

\* ------------------------------------------------------------------ C14
\* C14: the router is a state machine over MainMenu, GroupMenu(group) and
\* Terminated: after a leaf operation returned Process the router is in the
\* menu of the group the leaf was invoked from, after GoBack it is in MainMenu,
\* and after Exit it is Terminated and prompts no more.
C14_RouterStates ==
    /\ menu \in {"MainMenu", "Terminated"} \cup Groups
    /\ flow = "Process" => menu = GroupOf(cmd)
    /\ flow = "GoBack" => menu = "MainMenu"
    /\ flow = "Exit" => menu = "Terminated" /\ pc = "exited"

\* ------------------------------------------------------------------ C15
\* C15: once the loop runs, it stops only when the user selected the Exit leaf:
\* the process has ended only after an Exit outcome, never after a prompt
\* error, an operation error or an unimplemented command.
C15_LeavesOnlyOnExit ==
    pc = "exited" /\ ctx # NoContext => flow = "Exit" /\ menu = "Terminated"

\* ------------------------------------------------------------------ C16
\* C16: every run that has ended has the exit code SUCCESS, also when it ended
\* because configuration loading, context construction or a command prompt
\* returned an error.
C16_ExitCodeSuccess ==
    pc = "exited" => exit_code = "SUCCESS"

\* ------------------------------------------------------------------ C17
\* C17: after startup, an error raised inside a leaf operation (decode error,
\* validation rejection, gateway error, submission error) leaves exactly one
\* printed error line and the router at its next prompt; the process has
\* neither exited nor panicked.
C17_ErrorResumesLoop ==
    /\ result.kind = "Err" =>
          /\ pc = "prompt"
          /\ flow = "Process"
          /\ exit_code = "running"
          /\ Len(SelectSeq(printed, LAMBDA line : line = "error")) = 1
    /\ cmd = "Airdrop" /\ (\E i \in 1..Len(calls) : ~calls[i].ok) =>
          /\ pc = "prompt"
          /\ flow = "Process"
          /\ exit_code = "running"
          /\ Len(SelectSeq(printed, LAMBDA line : line = "error")) = 1

\* a stake operation ended in a submission error and the router is at its prompt
C17_Witness ==
    /\ cmd \in {"StakeDeactivate", "StakeWithdraw"}
    /\ result.kind = "Err"
    /\ result.class = "SubmissionError"
    /\ pc = "prompt"
    /\ printed = <<"error">>

\* ------------------------------------------------------------------ C18
\* C18: a failed Ledger Gateway call ends the operation in an error outcome that
\* carries the failure: the failed call is the operation's last call, and the
\* operation has returned a gateway or submission error. (A get_account that
\* fails while no account exists at the address is left out: only failures that
\* are certainly not an empty answer are counted.)
C18_GatewayFailureEndsOperation ==
    \A i \in 1..Len(calls) :
        ~calls[i].ok /\ ~(calls[i].fn = "get_account" /\ ledger = NoAccount) =>
            /\ i = Len(calls)
            /\ pc = "prompt"
            /\ result.kind = "Err"
            /\ result.class \in {"GatewayError", "SubmissionError"}

\* ------------------------------------------------------------------ C19
\* C19: the transaction handed to send_and_confirm_transaction by the builder
\* has the session public key as fee payer and is signed by exactly the keys of
\* the signer set the operation supplied: session, vote account and identity
\* for vote create, session and the supplied authority for vote authorize and
\* vote withdraw.
C19_SignsWithSuppliedSigners ==
    tx # NoTx /\ cmd # "Transfer" =>
        /\ tx.fee_payer = ctx.pubkey
        /\ tx.signers = {Signer_pubkey(k) : k \in signers}
        /\ cmd = "VoteCreate" =>
              signers = {ctx.keypair, args.vote_account_keypair, args.identity_keypair}
        /\ cmd = "VoteAuthorize" => signers = {ctx.keypair, args.authorized_keypair}
        /\ cmd = "VoteWithdraw" => signers = {ctx.keypair, args.authorized_withdrawer}

\* ------------------------------------------------------------------ C20
\* C20: a builder call makes exactly one get_latest_blockhash call and then at
\* most one send_and_confirm_transaction call: a failed blockhash fetch is
\* returned with nothing submitted, and a failed submission is returned without
\* a second attempt.
C20_BuilderCallsOnce ==
    cmd \in Commands \ {"Transfer"} =>
        LET fetches == CallsOf({"get_latest_blockhash"})
            sends == CallsOf({"send_and_confirm_transaction"})
        IN  /\ Cardinality(fetches) <= 1
            /\ Cardinality(sends) <= 1
            /\ pc = "send_and_confirm_transaction" \/ tx # NoTx \/ sends # {} =>
                  Cardinality(fetches) = 1
            /\ ix # NoIx /\ Finished => Cardinality(fetches) = 1
            /\ \A j \in sends : (j - 1) \in fetches /\ calls[j - 1].ok
            /\ \A i \in fetches :
                  ~calls[i].ok =>
                      /\ sends = {}
                      /\ tx = NoTx
                      /\ i = Len(calls)
                      /\ Finished
                      /\ result = GatewayError("get_latest_blockhash")
            /\ \A j \in sends :
                  /\ j = Len(calls)
                  /\ Finished
                  /\ result = IF calls[j].ok THEN Success ELSE SubmissionError

\* a builder call whose submission failed has returned that failure
C20_Witness ==
    /\ cmd \in Commands \ {"Transfer"}
    /\ Finished
    /\ result = SubmissionError
    /\ Cardinality(CallsOf({"get_latest_blockhash"})) = 1
    /\ Cardinality(CallsOf({"send_and_confirm_transaction"})) = 1

\* ------------------------------------------------------------------ C23
\* C23: in stake deactivate, stake withdraw, vote authorize and vote withdraw,
\* every authority-mismatch rejection cites the expected authority and the
\* supplied key, every cooldown rejection cites the deactivation epoch and the
\* current epoch, and every insufficient-balance rejection cites the requested
\* amount and the available balance.
C23_RejectionsCiteBothValues ==
    Rejected =>
        /\ result.reason = "You are not the authorized staker" =>
              /\ <<"authorized_staker", account.data.staker>> \in result.cited
              /\ <<"supplied", ctx.pubkey>> \in result.cited
        /\ result.reason = "You are not the authorized withdrawer" =>
              /\ <<"authorized_withdrawer", account.data.withdrawer>> \in result.cited
              /\ <<"supplied", ctx.pubkey>> \in result.cited
        /\ result.reason = "Keypair is not the current authorized voter or withdrawer" =>
              /\ <<"authorized_withdrawer", account.data.authorized_withdrawer>>
                     \in result.cited
              /\ \E c \in result.cited : c[1] = "authorized_voter"
              /\ <<"supplied", Signer_pubkey(args.authorized_keypair)>> \in result.cited
        /\ result.reason = "Keypair is not the authorized withdrawer" =>
              /\ <<"authorized_withdrawer", account.data.authorized_withdrawer>>
                     \in result.cited
              /\ <<"supplied", Signer_pubkey(args.authorized_withdrawer)>> \in result.cited
        /\ result.reason = "Stake is still cooling down" =>
              /\ <<"deactivation_epoch", account.data.deactivation_epoch>> \in result.cited
              /\ \E e \in FetchedEpochs : <<"current_epoch", e>> \in result.cited
        /\ result.reason = "Insufficient balance" =>
              /\ <<"requested_sol", args.amount_sol>> \in result.cited
              /\ <<"have_sol", lamports_to_sol(account.lamports)>> \in result.cited

\* ------------------------------------------------------------------ C26
\* C26: every stake withdraw instruction that is built or submitted carries at
\* least 1 lamport: no amount that passes the 'greater than 0' check is turned
\* into 0 lamports by sol_to_lamports and then submitted.
C26_WithdrawAtLeastOneLamport ==
    cmd = "StakeWithdraw" /\ (ix # NoIx \/ Submitted) => ix.lamports >= 1

\* ------------------------------------------------------------------ C21
\* the positions at which an operation is suspended on a gateway call
GatewayAwaits ==
    {"get_account", "get_epoch_info", "get_latest_blockhash",
     "get_minimum_balance_for_rent_exemption", "request_airdrop",
     "send_and_confirm_transaction"}
Suspended == pc \in GatewayAwaits

\* the previous operation, if there was one, has produced its outcome
OutcomeProduced ==
    \/ cmd = "none"
    \/ flow = "GoBack"
    \/ flow = "Process" /\ result.kind # "none"

\* C21: at most one operation is in flight: the router prompts for a new
\* command only after the previous operation has produced its outcome, an
\* operation becomes suspended on a gateway call only from the dispatch of the
\* one selected command, and while an operation is suspended on a gateway call
\* neither the context is reloaded nor the config file written.
C21_OneOperationInFlight ==
    [][/\ (pc = "prompt" /\ pc' = "group_menu" => OutcomeProduced)
       /\ (Suspended' /\ ~Suspended => pc = "process_command")
       /\ (Suspended \/ Suspended' =>
              ctx' = ctx /\ config_file' = config_file /\ reloaded' = reloaded)]_vars

\* an operation is suspended on the airdrop request while the config file and
\* the context name the custom endpoint
C21_Witness ==
    /\ pc = "request_airdrop"
    /\ ctx # NoContext
    /\ config_file.tag = "Text"
    /\ config_file.rpc_url = "custom"
    /\ ctx.rpc_client.url = "custom"

\* ------------------------------------------------------------------ C22
\* C22: the context is replaced wholesale on reload: after an Edit Config step
\* the context is either the one built from the new configuration (client,
\* keypair and pubkey all three) or is the context of before the step, and in
\* every reachable state the stored pubkey is the pubkey of the stored keypair.
C22_ReloadWholesale ==
    /\ [](ctx # NoContext => ctx.pubkey = Signer_pubkey(ctx.keypair))
    /\ [][pc = "process_command" /\ cmd = "ConfigEdit" =>
            \/ ctx' = ctx
            \/ /\ reloaded' = "ok"
               /\ ctx' = ScillaContext_try_from(toml_from_str(config_file').config).ctx]_vars

\* an edit was written and its reload failed: the context kept the client of
\* before the edit
C22_Witness ==
    /\ pc = "prompt"
    /\ cmd = "ConfigEdit"
    /\ reloaded = "failed"
    /\ ctx # NoContext

\* ------------------------------------------------------------------ C24
\* a text that is TOML and has all three keys of ScillaConfig with values of
\* their types
ParsesCompletely(file) ==
    /\ file.tag = "Text"
    /\ file.syntax_ok
    /\ file.rpc_url \in RpcUrls
    /\ file.commitment_level \in CommitmentLevels
    /\ file.keypair_path \in KeypairPaths

\* C24: load_from_path returns an error and never a configuration when loading
\* fails: ConfigPathDoesNotExist for a path with nothing at it, TomlParseError
\* for an existing file that is not valid TOML for a ScillaConfig; it returns a
\* configuration only when the file exists and parses completely, and then the
\* configuration is the one the text holds.
C24_LoadFromPathErrors ==
    pc = "tested" =>
        /\ config_file = NoFile => loaded = Err("ConfigPathDoesNotExist")
        /\ config_file.tag = "Text" /\ ~ParsesCompletely(config_file) =>
              loaded = Err("TomlParseError")
        /\ loaded.ok =>
              /\ ParsesCompletely(config_file)
              /\ loaded.config \in ScillaConfigs
              /\ loaded.config.rpc_url = config_file.rpc_url
              /\ loaded.config.commitment_level = config_file.commitment_level
              /\ loaded.config.keypair_path.file = config_file.keypair_path.file
        /\ ~loaded.ok => loaded.error \in {"ConfigPathDoesNotExist", "IoError", "TomlParseError"}

\* load_from_path was called on a text with broken syntax and returned the
\* parse error
C24_Witness ==
    /\ pc = "tested"
    /\ config_file.tag = "Text"
    /\ ~config_file.syntax_ok
    /\ loaded = Err("TomlParseError")

\* ------------------------------------------------------------------ C25
\* the context that the configuration stored at the config path builds
ContextOfFile(file) ==
    LET parsed == read_and_parse(file) IN
    IF parsed.ok THEN ScillaContext_try_from(parsed.config) ELSE parsed

\* C25: after every Edit Config command, whether it succeeded or failed, the
\* session context corresponds to the configuration stored in the config file:
\* the file never holds new settings while the context holds the previous ones.
C25_ContextMatchesFile ==
    pc = "prompt" /\ cmd = "ConfigEdit" =>
        /\ ContextOfFile(config_file).ok
        /\ ctx = ContextOfFile(config_file).ctx

\* ------------------------------------------------------------------ C27
\* C27: whenever generate_config has returned Ok during startup ("Configuration
\* complete" is printed), a config file exists at the config path, so that the
\* read that follows does not fail for want of the file; this includes the run
\* in which 'None' is picked as commitment level.
C27_GeneratedFileExists ==
    pc \in {"prompt", "exited"} /\ printed = <<"Configuration complete">> =>
        config_file # NoFile

\* ------------------------------------------------------------------ C28
\* the answers that cancel an edit
Cancelled(answers) ==
    \/ answers.field = "None"
    \/ answers.field = "CommitmentLevel" /\ answers.selected = "None"

\* C28: when the user cancels Edit Config, by 'None' as the field or 'None' as
\* the commitment level, the config file and the session context are both
\* unchanged, no reload is performed, and the command yields Process: the
\* router is back at the prompt.
C28_CancelledEditChangesNothing ==
    [][pc = "process_command" /\ cmd = "ConfigEdit" /\ Cancelled(args') =>
          /\ config_file' = config_file
          /\ ctx' = ctx
          /\ reloaded' = "none"
          /\ flow' = "Process"
          /\ pc' = "prompt"]_vars

\* an edit was cancelled at the commitment level and the command returned
C28_Witness ==
    /\ pc = "prompt"
    /\ cmd = "ConfigEdit"
    /\ args.field = "CommitmentLevel"
    /\ args.selected = "None"
    /\ flow = "Process"
    /\ result = Success

====
